---- MODULE Spec2Model ----
(***************************************************************************)
(* A model of libwgit.py: the repository handle (GitRepository), the path  *)
(* helpers (repo_path, repo_file, repo_dir), repository creation           *)
(* (repo_create), repository discovery (repo_find) and the object reader   *)
(* (object_read), acting on a filesystem.                                  *)
(*                                                                         *)
(* A path is a sequence of names below the filesystem root <<>>.  The      *)
(* filesystem is a function from the existing paths to nodes; a node is a  *)
(* directory or a regular file with its data.  File data is a sequence of  *)
(* lines, each a sequence of strings.  An exception is the string naming   *)
(* it; NoErr is normal completion.                                         *)
(*                                                                         *)
(* The functions are modelled as written, one by one.  As committed, the   *)
(* file does not compile (line 199, "def serialize(, self, repo)"), so     *)
(* none of them can be called until that line is repaired; the model is of *)
(* the file with only that comma removed.                                  *)
(***************************************************************************)
EXTENDS Integers, Sequences, FiniteSets, TLC

VARIABLES fs, pre, res, walk

vars == <<fs, pre, res, walk>>

(* ---------------------------------------------------------------- bounds *)
MaxDepth == 2
MaxPayload == 2
MaxDigits == 2

(* ------------------------------------------------------------ filesystem *)
Root == <<>>
GitName == ".git"
DirNode == [kind |-> "dir", data |-> <<>>]
FileNode(d) == [kind |-> "file", data |-> d]

NoErr == "none"

Parent(p) == IF p = Root THEN Root ELSE SubSeq(p, 1, Len(p) - 1)
Join(p, comps) == p \o comps
Prefixes(p) == {SubSeq(p, 1, k) : k \in 0..Len(p)}

Exists(f, p) == p \in DOMAIN f
IsDir(f, p) == p \in DOMAIN f /\ f[p].kind = "dir"
IsFile(f, p) == p \in DOMAIN f /\ f[p].kind = "file"
Listdir(f, p) == {q \in DOMAIN f : Len(q) = Len(p) + 1 /\ Parent(q) = p}

Put(f, ps, node) == [q \in DOMAIN f \cup ps |-> IF q \in ps THEN node ELSE f[q]]

\* os.mkdir(p) in the place of os.makedirs(p): only the last directory is made
MkdirLeaf(f, p) ==
  IF Exists(f, p) THEN [fs |-> f, err |-> "FileExistsError"]
  ELSE IF ~Exists(f, Parent(p)) THEN [fs |-> f, err |-> "FileNotFoundError"]
  ELSE IF ~IsDir(f, Parent(p)) THEN [fs |-> f, err |-> "NotADirectoryError"]
  ELSE [fs |-> Put(f, {p}, DirNode), err |-> NoErr]

\* os.makedirs(p): creates p and every missing ancestor; fails when p exists
\* or when an existing ancestor is not a directory (nothing is created then).
Makedirs(f, p) ==
  IF Exists(f, p) THEN [fs |-> f, err |-> "FileExistsError"]
  ELSE IF \E a \in Prefixes(p) : Exists(f, a) /\ ~IsDir(f, a)
       THEN [fs |-> f, err |-> "NotADirectoryError"]
       ELSE [fs |-> Put(f, {a \in Prefixes(p) : ~Exists(f, a)}, DirNode), err |-> NoErr]

\* with open(p, "w") as f: f.write(d)
OpenWrite(f, p, d) ==
  IF IsDir(f, p) THEN [fs |-> f, err |-> "IsADirectoryError"]
  ELSE IF ~IsDir(f, Parent(p))
       THEN [fs |-> f, err |-> IF Exists(f, Parent(p)) THEN "NotADirectoryError"
                                                       ELSE "FileNotFoundError"]
       ELSE [fs |-> Put(f, {p}, FileNode(d)), err |-> NoErr]

(* ---------------------------------------------------------- path helpers *)
\* An operator that binds an intermediate result takes it as a parameter: the
\* second half of a function body is an operator of its own, named after the
\* value it receives.  The result is computed once, as the one member v of a
\* set, and handed on: Only({K(v) : v \in {e}}) is K(e).
Only(S) == CHOOSE v \in S : TRUE

Gitdir(worktree) == Join(worktree, <<GitName>>)
NonePath == [some |-> FALSE, path |-> Root]
SomePath(p) == [some |-> TRUE, path |-> p]

repo_path(worktree, comps) == Join(Gitdir(worktree), comps)

ErrNotADirectory == "Exception: Not a directory"

\* lines 106-108: os.makedirs(path); return path
MadeDir(m, path) ==
  [fs |-> m.fs, err |-> m.err, ret |-> IF m.err = NoErr THEN SomePath(path) ELSE NonePath]

\* lines 100-110, on the joined path
RepoDirAt(f, path, mkdir) ==
  IF Exists(f, path)
  THEN IF IsDir(f, path)
       THEN [fs |-> f, err |-> NoErr, ret |-> SomePath(path)]
       ELSE [fs |-> f, err |-> ErrNotADirectory, ret |-> NonePath]
  ELSE IF mkdir
       THEN Only({MadeDir(m, path) : m \in {Makedirs(f, path)}})
       ELSE [fs |-> f, err |-> NoErr, ret |-> NonePath]

repo_dir(f, worktree, comps, mkdir) ==
  Only({RepoDirAt(f, path, mkdir) : path \in {repo_path(worktree, comps)}})

ButLast(comps) == IF comps = <<>> THEN <<>> ELSE SubSeq(comps, 1, Len(comps) - 1)

\* lines 87-88: d is what repo_dir gave for the parent
FileIn(d, path) ==
  IF d.err = NoErr /\ d.ret.some
  THEN [fs |-> d.fs, err |-> NoErr, ret |-> SomePath(path)]
  ELSE [fs |-> d.fs, err |-> d.err, ret |-> NonePath]

repo_file(f, worktree, comps, mkdir) ==
  Only({FileIn(d, repo_path(worktree, comps)) :
          d \in {repo_dir(f, worktree, ButLast(comps), mkdir)}})

(* ------------------------------------------------------ name resolution *)
\* The names bound at module level in libwgit.py (imports, assignments, defs,
\* classes).  Evaluating any other bare name raises NameError.
ModuleNames ==
  {"argparse", "configparser", "datetime", "grp", "pwd", "fnmatch", "hashlib",
   "ceil", "os", "re", "sys", "zlib", "argparser", "argsubparsers", "main",
   "GitRepository", "repo_path", "repo_file", "repo_dir", "repo_create",
   "repo_default_config", "argsp", "cmd_init", "repo_find", "GitObject",
   "object_read"}
NameDefined(n) == n \in ModuleNames

(* --------------------------------------------------------- configparser *)
\* A configuration is a sequence of sections, each a name and a sequence of
\* <<key, value>> items.  On disk it is one line "[name]" per section followed
\* by one line "key = value" per item and an empty line.
EmptyConf == <<>>

repo_default_config ==
  << [name |-> "core",
      items |-> << <<"reposiositoryformatversion", "0">>,
                   <<"filemode", "false">>,
                   <<"bare", "false">> >>] >>

HeaderLine(n) == <<"[", n, "]">>
ItemLine(kv) == <<kv[1], " = ", kv[2]>>
BlankLine == <<>>

\* ConfigParser.write
ConfigWrite(conf) ==
  LET SectionLines(sec) ==
        <<HeaderLine(sec.name)>> \o [i \in 1..Len(sec.items) |-> ItemLine(sec.items[i])]
          \o <<BlankLine>>
      Lines[n \in 0..Len(conf)] ==
        IF n = 0 THEN <<>> ELSE Lines[n - 1] \o SectionLines(conf[n])
  IN Lines[Len(conf)]

HasSection(conf, n) == \E i \in 1..Len(conf) : conf[i].name = n
HasOption(sec, k) == \E i \in 1..Len(sec.items) : sec.items[i][1] = k

\* ConfigParser.read of one line, into the configuration read so far
ConfigLine(l, c) ==
  IF c.err # NoErr \/ l = BlankLine THEN c
  ELSE IF Len(l) = 3 /\ l[1] = "[" /\ l[3] = "]"
  THEN IF HasSection(c.conf, l[2])
       THEN [c EXCEPT !.err = "DuplicateSectionError"]
       ELSE [c EXCEPT !.conf = Append(@, [name |-> l[2], items |-> <<>>])]
  ELSE IF Len(l) = 3 /\ l[2] = " = "
  THEN IF c.conf = <<>> THEN [c EXCEPT !.err = "MissingSectionHeaderError"]
       ELSE IF HasOption(c.conf[Len(c.conf)], l[1])
            THEN [c EXCEPT !.err = "DuplicateOptionError"]
            ELSE [c EXCEPT !.conf[Len(c.conf)].items = Append(@, <<l[1], l[3]>>)]
  ELSE [c EXCEPT !.err = IF c.conf = <<>> THEN "MissingSectionHeaderError"
                                          ELSE "ParsingError"]

\* ConfigParser.read of a file's lines
ConfigParse(lines) ==
  LET Read[n \in 0..Len(lines)] ==
        IF n = 0 THEN [err |-> NoErr, conf |-> EmptyConf]
        ELSE Only({ConfigLine(lines[n], c) : c \in {Read[n - 1]}})
  IN Read[Len(lines)]

(* ---------------------------------------------------------- GitRepository *)
ErrNotAGitRepository == "Exception: Not a Git repository"
ErrConfigurationMissing == "Exception: Configuration file missing"
ErrNameError == "NameError"

Handle(worktree, conf) == [worktree |-> worktree, gitdir |-> Gitdir(worktree), conf |-> conf]

\* line 61: conf.read([cf]) skips a file it cannot open (a directory)
ReadConfig(f, cf) ==
  IF IsFile(f, cf) THEN ConfigParse(f[cf].data) ELSE [err |-> NoErr, conf |-> EmptyConf]

\* lines 60-68: found says that cf is a path that exists, rd is what was read
\* from it.  Line 66 evaluates the bare name reposiositoryformatversion before
\* conf.get is called; lines 67-68 run only if that name is bound.
Validate(path, force, found, rd) ==
  IF found /\ rd.err # NoErr THEN [err |-> rd.err, repo |-> Handle(path, EmptyConf)]
  ELSE IF ~found /\ ~force
  THEN [err |-> ErrConfigurationMissing, repo |-> Handle(path, EmptyConf)]
  ELSE IF ~force /\ ~NameDefined("reposiositoryformatversion")
  THEN [err |-> ErrNameError, repo |-> Handle(path, EmptyConf)]
  ELSE [err |-> NoErr, repo |-> Handle(path, IF found THEN rd.conf ELSE EmptyConf)]

\* lines 58-68: cf is what repo_file(self, "config") gave
LoadConfig(f, path, force, cf) ==
  IF cf.err # NoErr THEN [err |-> cf.err, repo |-> Handle(path, EmptyConf)]
  ELSE Only({Validate(path, force, cf.ret.some /\ Exists(f, cf.ret.path), rd) :
               rd \in {ReadConfig(f, cf.ret.path)}})

\* GitRepository.__init__(path, force)
GitRepository(f, path, force) ==
  IF ~(force \/ IsDir(f, Gitdir(path)))
  THEN [err |-> ErrNotAGitRepository, repo |-> Handle(path, EmptyConf)]
  ELSE Only({LoadConfig(f, path, force, cf) :
               cf \in {repo_file(f, path, <<"config">>, FALSE)}})

(* ------------------------------------------------------------ repo_create *)
ErrIsNotADirectory == "Exception: is not a directory!"
ErrIsNotEmpty == "Exception: is not empty!"

DescriptionData ==
  << <<"Unnamed repository; edit this file 'description' to name the repository.\n">> >>
\* HEAD written without its line end
HeadDataNoNewline == << <<"ref: refs/heads/master">> >>
HeadData == << <<"ref: refs/heads/master\n">> >>

\* open(pf, "w") and write, pf being what repo_file gave
WriteAt(pf, data) ==
  IF pf.err # NoErr THEN [fs |-> pf.fs, err |-> pf.err]
  ELSE IF ~pf.ret.some THEN [fs |-> pf.fs, err |-> "TypeError"]
  ELSE OpenWrite(pf.fs, pf.ret.path, data)

\* with open(repo_file(repo, name), "w") as f: f.write(data)
WriteRepoFile(f, worktree, name, data) ==
  Only({WriteAt(pf, data) : pf \in {repo_file(f, worktree, <<name>>, FALSE)}})

\* lines 122-128: the checks on the worktree and the control directory
CreateChecks(f, path) ==
  IF Exists(f, path)
  THEN IF ~IsDir(f, path) THEN [fs |-> f, err |-> ErrIsNotADirectory]
       ELSE IF Exists(f, Gitdir(path))
            THEN IF ~IsDir(f, Gitdir(path)) THEN [fs |-> f, err |-> "NotADirectoryError"]
                 ELSE IF Listdir(f, Gitdir(path)) # {} THEN [fs |-> f, err |-> ErrIsNotEmpty]
                 ELSE [fs |-> f, err |-> NoErr]
            ELSE [fs |-> f, err |-> NoErr]
  ELSE Makedirs(f, path)

DescriptionName == "descriotion"

\* lines 130-146 in order: the directories made, then the files written
CreateSteps ==
  << [op |-> "dir", comps |-> <<"branches">>, data |-> <<>>],
     [op |-> "dir", comps |-> <<"objects">>, data |-> <<>>],
     [op |-> "dir", comps |-> <<"refs", "tags">>, data |-> <<>>],
     [op |-> "dir", comps |-> <<"refs", "heads">>, data |-> <<>>],
     [op |-> "write", comps |-> <<DescriptionName>>, data |-> DescriptionData],
     [op |-> "write", comps |-> <<"HEAD">>, data |-> HeadData],
     [op |-> "write", comps |-> <<"config">>, data |-> ConfigWrite(repo_default_config)] >>

Effect(d) == [fs |-> d.fs, err |-> d.err]

\* one statement of lines 130-146, unless an earlier one raised
CreateStep(s, path, st) ==
  IF s.err # NoErr THEN s
  ELSE IF st.op = "dir"
  THEN Only({Effect(d) : d \in {repo_dir(s.fs, path, st.comps, TRUE)}})
  ELSE WriteRepoFile(s.fs, path, st.comps[1], st.data)

\* the statements run in order until one raises; what was made stays
RunSteps(s0, path, steps) ==
  LET Run[n \in 0..Len(steps)] ==
        IF n = 0 THEN s0 ELSE Only({CreateStep(s, path, steps[n]) : s \in {Run[n - 1]}})
  IN Run[Len(steps)]

WithRepo(s, repo) == [fs |-> s.fs, err |-> s.err, repo |-> repo]

\* lines 122-148: g is the handle line 118 built
CreateIn(f, path, g) ==
  IF g.err # NoErr THEN [fs |-> f, err |-> g.err, repo |-> g.repo]
  ELSE Only({WithRepo(RunSteps(c, path, CreateSteps), g.repo) : c \in {CreateChecks(f, path)}})

repo_create(f, path) == Only({CreateIn(f, path, g) : g \in {GitRepository(f, path, TRUE)}})

(* -------------------------------------------------------------- repo_find *)
ErrNotGitDirectory == "Exception: Not git directory."

\* line 173: return GitRepository(path)
Opened(g, path) ==
  [kind |-> "return", err |-> g.err, found |-> g.err = NoErr, repo |-> g.repo,
   next |-> path]

\* the recursive call made on path again, not on its parent
FindCallSamePath(f, path, required) ==
  IF IsDir(f, Join(path, <<GitName>>))
  THEN Only({Opened(g, path) : g \in {GitRepository(f, path, FALSE)}})
  ELSE IF Parent(path) = path
       THEN [kind |-> "return", err |-> IF required THEN ErrNotGitDirectory ELSE NoErr,
             found |-> FALSE, repo |-> Handle(path, EmptyConf), next |-> path]
       ELSE [kind |-> "recurse", err |-> NoErr, found |-> FALSE,
             repo |-> Handle(path, EmptyConf), next |-> path]

\* One call of repo_find on an already resolved path: "return" carries the
\* result of the whole search, "recurse" the argument of the recursive call.
FindCall(f, path, required) ==
  IF IsDir(f, Join(path, <<GitName>>))
  THEN Only({Opened(g, path) : g \in {GitRepository(f, path, FALSE)}})
  ELSE IF Parent(path) = path
       THEN [kind |-> "return", err |-> IF required THEN ErrNotGitDirectory ELSE NoErr,
             found |-> FALSE, repo |-> Handle(path, EmptyConf), next |-> path]
       ELSE [kind |-> "recurse", err |-> NoErr, found |-> FALSE,
             repo |-> Handle(path, EmptyConf), next |-> Parent(path)]

(* ------------------------------------------------------------ byte strings *)
\* A byte string is a sequence of one-character strings; NUL stands for b'\x00'.
\* Indices are Python's (from 0); -1 is "not found".
NUL == "NUL"
SP == " "
Digits == <<"0", "1", "2", "3", "4", "5", "6", "7", "8", "9">>
IsDigit(c) == \E d \in 1..10 : Digits[d] = c
DigitVal(c) == (CHOOSE d \in 1..10 : Digits[d] = c) - 1

\* Python's clamping of a slice or search bound
Clamp(i, n) == IF i < 0 THEN (IF i + n < 0 THEN 0 ELSE i + n) ELSE (IF i > n THEN n ELSE i)

\* raw.find(c, start)
Find(raw, c, start) ==
  LET from == Clamp(start, Len(raw))
      hits == {i \in from..(Len(raw) - 1) : raw[i + 1] = c}
  IN IF hits = {} THEN -1 ELSE CHOOSE i \in hits : \A j \in hits : i <= j

\* raw[a:b]
Slice(raw, a, b) == SubSeq(raw, Clamp(a, Len(raw)) + 1, Clamp(b, Len(raw)))

RECURSIVE StripLeft(_)
StripLeft(t) == IF t # <<>> /\ Head(t) = SP THEN StripLeft(Tail(t)) ELSE t
RECURSIVE StripRight(_)
StripRight(t) ==
  IF t # <<>> /\ t[Len(t)] = SP THEN StripRight(SubSeq(t, 1, Len(t) - 1)) ELSE t

RECURSIVE Decimal(_)
Decimal(t) == IF t = <<>> THEN 0 ELSE 10 * Decimal(SubSeq(t, 1, Len(t) - 1)) + DigitVal(t[Len(t)])

\* int(text) once the surrounding white space is dropped: one sign is allowed,
\* the rest must be decimal digits
IntOf(signed, negative, body) ==
  IF body = <<>> \/ \E i \in 1..Len(body) : ~IsDigit(body[i])
  THEN [err |-> "ValueError", val |-> 0]
  ELSE [err |-> NoErr, val |-> IF negative THEN 0 - Decimal(body) ELSE Decimal(body)]

Signed(t) == t # <<>> /\ t[1] \in {"-", "+"}
IntStripped(t) ==
  IntOf(Signed(t), Signed(t) /\ t[1] = "-", IF Signed(t) THEN Tail(t) ELSE t)

\* int(text)
ParseInt(text) == Only({IntStripped(t) : t \in {StripRight(StripLeft(text))}})

\* The data of a file holding zlib.compress(raw); any other data is no zlib stream.
Compressed(raw) == << <<"zlib">>, raw >>
Decompress(data) ==
  IF Len(data) = 2 /\ data[1] = <<"zlib">>
  THEN [err |-> NoErr, raw |-> data[2]]
  ELSE [err |-> "zlib.error", raw |-> <<>>]

(* ------------------------------------------------------------ object_read *)
ErrMalformedObject == "Exception: Malformed object"
ErrUnknownType == "Exception: Unknown type"

NoObject == [some |-> FALSE, class |-> "", data |-> <<>>]

\* lines 238-243: the constructor a type keyword selects ("" for case _)
Constructor(fmt) ==
  IF fmt = <<"c", "o", "m", "m", "i", "t">> THEN "GitCommit"
  ELSE IF fmt = <<"t", "r", "e", "e">> THEN "GitTree"
  ELSE IF fmt = <<"t", "a", "g">> THEN "GitTag"
  ELSE IF fmt = <<"b", "l", "o", "b">> THEN "GitBlob"
  ELSE ""

\* the constructor picked before the size is validated
DispatchTypeFirst(raw, y, size, c) ==
  IF size.err # NoErr THEN [err |-> size.err, ret |-> NoObject]
  ELSE IF c = "" THEN [err |-> ErrUnknownType, ret |-> NoObject]
  ELSE IF size.val # Len(raw) - y - 1 THEN [err |-> ErrMalformedObject, ret |-> NoObject]
  ELSE IF ~NameDefined(c) THEN [err |-> ErrNameError, ret |-> NoObject]
  ELSE [err |-> NoErr,
        ret |-> [some |-> TRUE, class |-> c, data |-> Slice(raw, y + 1, Len(raw))]]

\* lines 234-246: size is int(raw[x:y]), c the constructor selected, y the
\* index of the NUL
Dispatch(raw, y, size, c) ==
  IF size.err # NoErr THEN [err |-> size.err, ret |-> NoObject]
  ELSE IF size.val # Len(raw) - y - 1 THEN [err |-> ErrMalformedObject, ret |-> NoObject]
  ELSE IF c = "" THEN [err |-> ErrUnknownType, ret |-> NoObject]
  ELSE IF ~NameDefined(c) THEN [err |-> ErrNameError, ret |-> NoObject]
  ELSE [err |-> NoErr,
        ret |-> [some |-> TRUE, class |-> c, data |-> Slice(raw, y + 1, Len(raw))]]

\* lines 229-233: x is the index of the first space, y of the first NUL from x
ParseBetween(raw, x, y) ==
  Only({Dispatch(raw, y, size, Constructor(Slice(raw, 0, x))) :
          size \in {ParseInt(Slice(raw, x, y))}})

ParseFrom(raw, x) == Only({ParseBetween(raw, x, y) : y \in {Find(raw, NUL, x)}})

\* lines 228-246: the body of the with block, on the decompressed bytes
ParseObject(raw) == Only({ParseFrom(raw, x) : x \in {Find(raw, SP, 0)}})

\* An object identifier: sha[0:2] and sha[2:]
Sha(shard, rest) == [shard |-> shard, rest |-> rest]

\* line 225
Decompressed(z) ==
  IF z.err # NoErr THEN [err |-> z.err, ret |-> NoObject] ELSE ParseObject(z.raw)

\* lines 221-246: pf is what repo_file gave; os.path.isfile(None) raises
ReadAt(f, pf) ==
  IF pf.err # NoErr THEN [err |-> pf.err, ret |-> NoObject]
  ELSE IF ~pf.ret.some THEN [err |-> "TypeError", ret |-> NoObject]
  ELSE IF ~IsFile(f, pf.ret.path) THEN [err |-> NoErr, ret |-> NoObject]
  ELSE Only({Decompressed(z) : z \in {Decompress(f[pf.ret.path].data)}})

object_read(f, worktree, sha) ==
  Only({ReadAt(f, pf) : pf \in {repo_file(f, worktree, <<"objects", sha.shard, sha.rest>>, FALSE)}})

(* ---------------------------------------------------------- state machine *)
\* fs is the filesystem, pre the filesystem as it was when the last operation
\* was called, res the last operation with its arguments and outcome, walk the
\* position of a running repo_find.

DirNames == {"r", "s"}
RECURSIVE PathsUpTo(_)
PathsUpTo(n) ==
  IF n = 0 THEN {Root}
  ELSE PathsUpTo(n - 1) \cup
       {Append(p, d) : p \in {q \in PathsUpTo(n - 1) : Len(q) = n - 1}, d \in DirNames}

\* arguments of the operations
StartPaths == PathsUpTo(MaxDepth)
WorkPaths == {<<"r">>, <<"r", "s">>}
RepoPaths == {<<"r">>}
DirComps == {<<>>, <<"objects", "e9">>, <<"HEAD">>, <<"HEAD", "x">>}
Shas == {Sha("e9", "65"), Sha("0a", "17")}

Tree(entries) ==
  [p \in {e[1] : e \in entries} |-> (CHOOSE e \in entries : e[1] = p)[2]]

\* a configuration file as git itself writes it, declaring format version v
GitConfig(v) ==
  ConfigWrite(<< [name |-> "core",
                  items |-> << <<"repositoryformatversion", v>>,
                               <<"filemode", "true">>,
                               <<"bare", "false">> >>] >>)

\* a configuration file as git writes it for a remote with two fetch refspecs
RemoteConfig ==
  GitConfig("0") \o
  << HeaderLine("remote \"origin\""), ItemLine(<<"url", "u">>),
     ItemLine(<<"fetch", "a">>), ItemLine(<<"fetch", "b">>), BlankLine >>

\* the filesystems the program may be started on
BareFS == Tree({<<Root, DirNode>>})
InitialFilesystems ==
  { BareFS,
    Tree({<<Root, DirNode>>, <<<<"r">>, DirNode>>, <<<<"r", "s">>, DirNode>>}),
    Tree({<<Root, DirNode>>, <<<<"r">>, FileNode(<<>>)>>}),
    Tree({<<Root, DirNode>>, <<<<"r">>, DirNode>>, <<<<"r", GitName>>, DirNode>>}),
    Tree({<<Root, DirNode>>, <<<<"r">>, DirNode>>, <<<<"r", GitName>>, FileNode(<<>>)>>}),
    Tree({<<Root, DirNode>>, <<<<"r">>, DirNode>>, <<<<"r", GitName>>, DirNode>>,
          <<<<"r", GitName, "config">>, FileNode(GitConfig("0"))>>}),
    Tree({<<Root, DirNode>>, <<<<"r">>, DirNode>>, <<<<"r", GitName>>, DirNode>>,
          <<<<"r", GitName, "config">>, FileNode(GitConfig("1"))>>}),
    Tree({<<Root, DirNode>>, <<<<"r">>, DirNode>>, <<<<"r", GitName>>, DirNode>>,
          <<<<"r", GitName, "config">>, FileNode(RemoteConfig)>>}) }

Idle == [pc |-> "idle", path |-> Root, required |-> FALSE]
NoRepo == [some |-> FALSE, worktree |-> Root]
Res0 == [op |-> "none", path |-> Root, comps |-> <<>>, flag |-> FALSE,
         sha |-> Sha("", ""), err |-> NoErr, ret |-> NonePath, repo |-> NoRepo,
         obj |-> NoObject]

Init ==
  /\ fs \in InitialFilesystems
  /\ pre = fs
  /\ res = Res0
  /\ walk = Idle

\* repo_create(path)
Create(path) ==
  /\ walk.pc = "idle"
  /\ \E r \in {repo_create(fs, path)} :
     /\ fs' = r.fs
     /\ res' = [Res0 EXCEPT !.op = "init", !.path = path, !.err = r.err,
                  !.repo = IF r.err = NoErr
                           THEN [some |-> TRUE, worktree |-> r.repo.worktree] ELSE NoRepo]
  /\ pre' = fs
  /\ UNCHANGED walk

\* repo_dir(GitRepository(worktree, True), *comps, mkdir=mkdir)
ResolveDir(worktree, comps, mkdir) ==
  /\ walk.pc = "idle"
  /\ \E r \in {repo_dir(fs, worktree, comps, mkdir)} :
     /\ fs' = r.fs
     /\ res' = [Res0 EXCEPT !.op = "repo_dir", !.path = worktree, !.comps = comps,
                  !.flag = mkdir, !.err = r.err, !.ret = r.ret]
  /\ pre' = fs
  /\ UNCHANGED walk

\* GitRepository(path)
Open(path) ==
  /\ walk.pc = "idle"
  /\ \E g \in {GitRepository(fs, path, FALSE)} :
     res' = [Res0 EXCEPT !.op = "open", !.path = path, !.err = g.err,
               !.repo = IF g.err = NoErr
                        THEN [some |-> TRUE, worktree |-> g.repo.worktree] ELSE NoRepo]
  /\ pre' = fs
  /\ UNCHANGED <<fs, walk>>

\* repo_find(start, required) is called: line 170
FindStart(start, required) ==
  /\ walk.pc = "idle"
  /\ walk' = [pc |-> "walk", path |-> start, required |-> required]
  /\ res' = [Res0 EXCEPT !.op = "find", !.path = start, !.flag = required]
  /\ pre' = fs
  /\ UNCHANGED fs

\* one call of repo_find: lines 172-188
FindStep ==
  /\ walk.pc = "walk"
  /\ \E c \in {FindCall(fs, walk.path, walk.required)} :
     IF c.kind = "return"
     THEN /\ walk' = [Idle EXCEPT !.path = walk.path]
          /\ res' = [res EXCEPT !.err = c.err,
                       !.repo = IF c.found
                                THEN [some |-> TRUE, worktree |-> c.repo.worktree]
                                ELSE NoRepo]
     ELSE /\ walk' = [walk EXCEPT !.path = c.next]
          /\ UNCHANGED res
  /\ UNCHANGED <<fs, pre>>

\* object_read(GitRepository(worktree, True), sha)
ObjectRead(worktree, sha) ==
  /\ walk.pc = "idle"
  /\ \E r \in {object_read(fs, worktree, sha)} :
     res' = [Res0 EXCEPT !.op = "read", !.path = worktree, !.sha = sha,
               !.err = r.err, !.obj = r.ret]
  /\ pre' = fs
  /\ UNCHANGED <<fs, walk>>

Next ==
  \/ \E p \in WorkPaths : Create(p)
  \/ \E w \in RepoPaths, c \in DirComps, m \in BOOLEAN : ResolveDir(w, c, m)
  \/ \E p \in WorkPaths : Open(p)
  \/ \E p \in StartPaths, required \in BOOLEAN : FindStart(p, required)
  \/ FindStep
  \/ \E w \in RepoPaths, sha \in Shas : ObjectRead(w, sha)

Spec == Init /\ [][Next]_vars

\* repo_find runs to completion once called: nothing suspends it
FairSpec == Spec /\ WF_vars(FindStep)

(* ------------------------------------------------- the object reader alone *)
\* The store of a freshly created repository holding one object file, whose
\* decompressed bytes are drawn from Raws, or which is no zlib stream.
RECURSIVE SeqsOfLen(_, _)
SeqsOfLen(S, n) ==
  IF n = 0 THEN {<<>>} ELSE {Append(t, c) : t \in SeqsOfLen(S, n - 1), c \in S}
SeqsUpTo(S, lo, hi) == UNION {SeqsOfLen(S, n) : n \in lo..hi}

Keywords ==
  { <<"b", "l", "o", "b">>, <<"t", "r", "e", "e">>, <<"c", "o", "m", "m", "i", "t">>,
    <<"t", "a", "g">>, <<"b", "l", "u", "b">>, <<>> }
SizeFields == SeqsUpTo({"0", "1", "2"}, 1, MaxDigits)
Payloads == SeqsUpTo({"a", NUL, SP}, 0, MaxPayload)

HeadedRaws ==
  {kw \o <<SP>> \o sz \o <<NUL>> \o pl : kw \in Keywords, sz \in SizeFields, pl \in Payloads}
OtherRaws ==
  { <<>>, <<"b", "l", "o", "b">>, <<"b", "l", "o", "b", SP, "1">>,
    <<"b", "l", "o", "b", "1", NUL, "a">>, <<"b", "l", "o", "b", SP, "a", NUL, "a">>,
    <<"b", "l", "o", "b", SP, "-", "1", NUL>>, <<"b", "l", "o", "b", SP, SP, "1", SP, NUL, "a">>,
    <<"b", NUL, "b", SP, "1", NUL, "a">> }
Raws == HeadedRaws \cup OtherRaws

TheRepo == <<"r">>
TheSha == Sha("e9", "65")
ObjectPath(worktree, sha) == Join(Gitdir(worktree), <<"objects", sha.shard, sha.rest>>)

StoreWith(data) ==
  Put(repo_dir(repo_create(BareFS, TheRepo).fs, TheRepo, <<"objects", TheSha.shard>>, TRUE).fs,
      {ObjectPath(TheRepo, TheSha)}, FileNode(data))

ObjInit ==
  /\ fs \in {StoreWith(Compressed(raw)) : raw \in Raws} \cup {StoreWith(<<>>)}
  /\ pre = fs
  /\ res = Res0
  /\ walk = Idle

ObjNext == \E sha \in Shas : ObjectRead(TheRepo, sha)

ObjSpec == ObjInit /\ [][ObjNext]_vars

(* ================================================================ claims *)
FindDone == res.op = "find" /\ walk.pc = "idle"
HasControlDir(f, p) == IsDir(f, Join(p, <<GitName>>))
NearestControlDir(f, start, p) ==
  /\ p \in Prefixes(start)
  /\ HasControlDir(f, p)
  /\ \A q \in Prefixes(start) : Len(q) > Len(p) => ~HasControlDir(f, q)
\* what a successful init(p) wrote is in place
Initialized(f, p) ==
  /\ IsDir(f, Join(p, <<GitName, "objects">>))
  /\ IsFile(f, Join(p, <<GitName, "HEAD">>))
  /\ IsFile(f, Join(p, <<GitName, "config">>))
  /\ f[Join(p, <<GitName, "config">>)].data = ConfigWrite(repo_default_config)
NonEmptyControlDir(f, p) == HasControlDir(f, p) /\ Listdir(f, Gitdir(p)) # {}
\* the values the configuration file of p gives to key in section
SectionsNamed(conf, n) == {conf[i] : i \in {k \in 1..Len(conf) : conf[k].name = n}}
ValuesIn(sec, key) ==
  {sec.items[j][2] : j \in {k \in 1..Len(sec.items) : sec.items[k][1] = key}}
ConfValues(conf, section, key) == UNION {ValuesIn(sec, key) : sec \in SectionsNamed(conf, section)}
OptionValues(f, p, section, key) ==
  IF ~IsFile(f, Join(p, <<GitName, "config">>)) THEN {}
  ELSE ConfValues(ConfigParse(f[Join(p, <<GitName, "config">>)].data).conf, section, key)

\* C1: after a successful init(p), find(start, required=true) from p or from a
\* directory nested in p returns a handle whose root is p; find with
\* required=true from a directory with no control directory in itself or in
\* any ancestor fails with NotARepository.
C1_FindAfterInit ==
  (FindDone /\ res.flag) =>
    /\ \A p \in WorkPaths :
         NearestControlDir(fs, res.path, p) /\ Initialized(fs, p)
           => res.err = NoErr /\ res.repo = [some |-> TRUE, worktree |-> p]
    /\ (\A q \in Prefixes(res.path) : ~HasControlDir(fs, q))
           => res.err = ErrNotGitDirectory /\ ~res.repo.some

\* C2: for every path p that is absent, or is a directory without a non-empty
\* control directory, a successful init(p) leaves the directories
\* p/.git/objects, p/.git/refs/heads and p/.git/refs/tags, and a file
\* p/.git/HEAD whose content is exactly "ref: refs/heads/master\n".
C2_InitLayout ==
  ( /\ res.op = "init" /\ res.err = NoErr
    /\ \/ ~Exists(pre, res.path)
       \/ IsDir(pre, res.path) /\ ~NonEmptyControlDir(pre, res.path) )
  => /\ IsDir(fs, Join(res.path, <<".git", "objects">>))
     /\ IsDir(fs, Join(res.path, <<".git", "refs", "heads">>))
     /\ IsDir(fs, Join(res.path, <<".git", "refs", "tags">>))
     /\ IsFile(fs, Join(res.path, <<".git", "HEAD">>))
     /\ fs[Join(res.path, <<".git", "HEAD">>)].data = << <<"ref: refs/heads/master\n">> >>

\* init succeeded on a path that did not exist
C2_Witness == res.op = "init" /\ res.err = NoErr /\ ~Exists(pre, res.path)

\* C3: after a successful init the control directory holds a file config whose
\* section core has the keys repositoryformatversion (value "0"), filemode and
\* bare, and a file description.
C3_ConfigAndDescription ==
  (res.op = "init" /\ res.err = NoErr)
  => /\ OptionValues(fs, res.path, "core", "repositoryformatversion") = {"0"}
     /\ OptionValues(fs, res.path, "core", "filemode") # {}
     /\ OptionValues(fs, res.path, "core", "bare") # {}
     /\ IsFile(fs, Join(res.path, <<".git", "description">>))

\* C4: init(p) fails with AlreadyInitialized when p's control directory exists
\* and is non-empty, and with NotADirectory when p exists and is not a
\* directory; in both cases nothing is created or modified.
C4_InitRefuses ==
  res.op = "init" =>
    /\ NonEmptyControlDir(pre, res.path) => res.err = ErrIsNotEmpty /\ fs = pre
    /\ (Exists(pre, res.path) /\ ~IsDir(pre, res.path))
         => res.err = ErrIsNotADirectory /\ fs = pre

\* line 68
ErrUnsupportedVersion == "Exception: Unsupported reposiositoryformatversion"
\* the format versions the configuration file of p declares, under the key git
\* uses or under the key repo_default_config writes
DeclaredVersions(f, p) ==
  OptionValues(f, p, "core", "repositoryformatversion")
    \cup OptionValues(f, p, "core", "reposiositoryformatversion")

\* C5: opening a repository without force succeeds exactly when the control
\* directory exists and its configuration declares format version 0; another
\* version fails with UnsupportedFormatVersion, a missing configuration file
\* with ConfigurationMissing.
C5_OpenExactly ==
  res.op = "open" =>
    /\ res.err = NoErr <=> (HasControlDir(fs, res.path) /\ DeclaredVersions(fs, res.path) = {"0"})
    /\ (HasControlDir(fs, res.path) /\ DeclaredVersions(fs, res.path) = {"1"})
         => res.err = ErrUnsupportedVersion
    /\ (HasControlDir(fs, res.path) /\ ~Exists(fs, Join(res.path, <<".git", "config">>)))
         => res.err = ErrConfigurationMissing

\* C6: for every identifier with no object file in the store, read returns
\* absent and never raises, whether or not the shard directory exists.
C6_ReadMissing ==
  ( /\ res.op = "read"
    /\ Initialized(fs, res.path)
    /\ ~Exists(fs, ObjectPath(res.path, res.sha)) )
  => res.err = NoErr /\ ~res.obj.some

\* the decompressed bytes of the object file read, <<>> when there are none
StoredRaw == Decompress(fs[ObjectPath(res.path, res.sha)].data).raw
ReadStored ==
  /\ res.op = "read"
  /\ IsFile(fs, ObjectPath(res.path, res.sha))
  /\ Decompress(fs[ObjectPath(res.path, res.sha)].data).err = NoErr
\* raw is <type> <size>\0<payload>: raw[i] is the space after the type keyword,
\* raw[j] the NUL after the decimal size
Headed(raw, i, j) ==
  /\ i < j - 1
  /\ raw[i] = SP /\ raw[j] = NUL
  /\ \A k \in 1..(i - 1) : raw[k] \notin {SP, NUL}
  /\ \A k \in (i + 1)..(j - 1) : IsDigit(raw[k])
DeclaredSize(raw, i, j) ==
  LET V[n \in i..(j - 1)] == IF n = i THEN 0 ELSE 10 * V[n - 1] + DigitVal(raw[n])
  IN V[j - 1]
Keyword(raw, i) == SubSeq(raw, 1, i - 1)
Payload(raw, j) == SubSeq(raw, j + 1, Len(raw))
Variant(kw) ==
  IF kw = <<"b", "l", "o", "b">> THEN "GitBlob"
  ELSE IF kw = <<"t", "r", "e", "e">> THEN "GitTree"
  ELSE IF kw = <<"c", "o", "m", "m", "i", "t">> THEN "GitCommit"
  ELSE IF kw = <<"t", "a", "g">> THEN "GitTag"
  ELSE "unknown"

\* C7: for every stored object whose decompressed bytes are
\* <type> <size>\0<payload>, read fails with MalformedObject whenever the
\* declared size differs from the number of bytes after the NUL, whatever the
\* type keyword is, and returns no object.
C7_SizeMismatch ==
  ReadStored =>
    \A i, j \in 1..Len(StoredRaw) :
      (Headed(StoredRaw, i, j) /\ DeclaredSize(StoredRaw, i, j) # Len(StoredRaw) - j)
        => res.err = ErrMalformedObject /\ ~res.obj.some

\* a read refused for its size although its type keyword is none of the four
C7_Witness ==
  /\ ReadStored
  /\ res.err = ErrMalformedObject
  /\ \E i, j \in 1..Len(StoredRaw) :
       /\ Headed(StoredRaw, i, j)
       /\ Variant(Keyword(StoredRaw, i)) = "unknown"
       /\ DeclaredSize(StoredRaw, i, j) # Len(StoredRaw) - j

\* C8: resolve_dir has the outcomes: the target is a directory -> the path,
\* nothing changed; the target exists and is no directory -> NotADirectory,
\* nothing changed; the target is absent and create is false -> absent, nothing
\* changed; the target is absent and create is true -> see CreatedAll.
Target == repo_path(res.path, res.comps)
\* the target and every missing ancestor were made, nothing else changed
CreatedAll ==
  /\ res.err = NoErr /\ res.ret = [some |-> TRUE, path |-> Target]
  /\ DOMAIN fs = DOMAIN pre \cup Prefixes(Target)
  /\ \A p \in DOMAIN pre : fs[p] = pre[p]
  /\ \A p \in Prefixes(Target) : IsDir(fs, p)
FileAbove(f, p) == \E a \in Prefixes(p) : Exists(f, a) /\ ~IsDir(f, a)
SettledOutcomes ==
  /\ IsDir(pre, Target)
       => res.err = NoErr /\ res.ret = [some |-> TRUE, path |-> Target] /\ fs = pre
  /\ (Exists(pre, Target) /\ ~IsDir(pre, Target))
       => res.err = ErrNotADirectory /\ fs = pre
  /\ (~Exists(pre, Target) /\ ~res.flag)
       => res.err = NoErr /\ res.ret = [some |-> FALSE, path |-> Root] /\ fs = pre

\* C8 as stated: whenever the target is absent and create is true, the target
\* and all missing intermediate directories are created and the path returned.
C8_FourOutcomes ==
  res.op = "repo_dir" =>
    /\ SettledOutcomes
    /\ (~Exists(pre, Target) /\ res.flag) => CreatedAll

\* C8 amended: with the target absent and create true, the directories are
\* created and the path returned when no existing ancestor of the target is a
\* non-directory; when one is, the call fails with the operating system's
\* NotADirectoryError and nothing is changed.
C8_FiveOutcomes ==
  res.op = "repo_dir" =>
    /\ SettledOutcomes
    /\ (~Exists(pre, Target) /\ res.flag /\ ~FileAbove(pre, Target)) => CreatedAll
    /\ (~Exists(pre, Target) /\ res.flag /\ FileAbove(pre, Target))
         => res.err = "NotADirectoryError" /\ ~res.ret.some /\ fs = pre

\* a call that made the target and at least two missing ancestors
C8_Witness ==
  /\ res.op = "repo_dir" /\ res.flag /\ res.err = NoErr
  /\ ~Exists(pre, Target) /\ ~Exists(pre, Parent(Parent(Target)))
  /\ IsDir(fs, Target)

\* C9: for a stored object whose declared size matches its payload length,
\* read returns an object of the variant the type keyword names when the
\* keyword is blob, tree, commit or tag, and fails with UnknownObjectType for
\* every other keyword.
C9_Dispatch ==
  ReadStored =>
    \A i, j \in 1..Len(StoredRaw) :
      (Headed(StoredRaw, i, j) /\ DeclaredSize(StoredRaw, i, j) = Len(StoredRaw) - j)
        => IF Variant(Keyword(StoredRaw, i)) = "unknown"
           THEN res.err = ErrUnknownType /\ ~res.obj.some
           ELSE /\ res.err = NoErr
                /\ res.obj = [some |-> TRUE, class |-> Variant(Keyword(StoredRaw, i)),
                              data |-> Payload(StoredRaw, j)]

\* C10: find always terminates: each step moves to the parent, the walk stops
\* at the first ancestor holding a control directory or at the root; at the
\* root without a match it returns absent when required is false and fails
\* with NotARepository when required is true; it changes no file or directory.
C10_FindTerminates ==
  /\ (walk.pc = "walk") ~> FindDone
  /\ [][ (walk.pc = "walk" /\ walk'.pc = "walk")
           => /\ walk'.path = Parent(walk.path)
              /\ Len(walk'.path) < Len(walk.path)
              /\ ~HasControlDir(fs, walk.path) ]_vars
  /\ [](res.op = "find" => fs = pre)
  /\ [](FindDone =>
         \/ NearestControlDir(fs, res.path, walk.path)
         \/ /\ walk.path = Root
            /\ \A q \in Prefixes(res.path) : ~HasControlDir(fs, q)
            /\ res.err = (IF res.flag THEN ErrNotGitDirectory ELSE NoErr)
            /\ ~res.repo.some)

\* a search that climbed from a nested directory to the root and failed
C10_Witness ==
  /\ FindDone /\ res.flag /\ res.err = ErrNotGitDirectory
  /\ Len(res.path) >= 2 /\ walk.path = Root

====
